---- MODULE Spec2Model ----
(***************************************************************************)
(* A model of vlgp's variational EM core (src/vlgp/core.py).               *)
(*                                                                         *)
(* Spec      the vem driver: the outer loop, the E/M/H steps as whole      *)
(*           handlers, the callbacks, the convergence test, the garbage    *)
(*           collector switch and the hyperparameters the H-step rewrites. *)
(* SpecH     hstep called once per value of model['it'], with what         *)
(*           gp.optim returned kept for inspection.                        *)
(* SpecProj  constrain_mu and constrain_a applied to drawn mu, a and b.    *)
(* SpecInit  initialize on models with absent prerequisite fields.         *)
(* SpecChan  initialize and the inner passes of estep and mstep, followed  *)
(*           through mu, a, b and the channel types.                       *)
(* SpecEM    initialize, vem and postprocess with the loops of estep and   *)
(*           mstep taken one step at a time: the buffers, the residuals,   *)
(*           the increments, w, v, the local arrays of mstep.              *)
(*                                                                         *)
(* In Spec and SpecH the arrays are abstracted: the driver keeps the       *)
(* results of the three norm comparisons, and the outcome of every linear  *)
(* solve (success or LinAlgError) is an input of the step that performs    *)
(* it.  In the other four mu, a and b are arrays of exact rationals.       *)
(* Hyperparameters are exact integers in fixed units:                      *)
(*   omega    in units of 1e-10,                                           *)
(*   sigma^2  in units of 1e-4, sigma in units of 1e-2 (sqrt rounds down). *)
(***************************************************************************)
EXTENDS Integers, Sequences, FiniteSets, TLC

VARIABLES
    pc,          \* where the call of vem stands
    it,          \* model['it']
    loopIt,      \* the loop variable `it` of `for it in range(model['it'], niter)`
    niter,       \* options['niter']
    startIt,     \* model['it'] when vem was entered (history)
    hperiod,     \* options[HPERIOD]
    learn_post,  \* options[ESTEP]
    learn_param, \* options[MSTEP]
    learn_hyper, \* options[HSTEP]
    ncallbacks,  \* len(callbacks)
    cbIdx,       \* callbacks already invoked in this iteration
    gcEnabled,   \* state of the garbage collector switch
    converged,   \* the local `converged` of the last convergence test
    outcome,     \* how vem was left
    logged,      \* logger.exception was called by the last step
    ytype,       \* model[Y_TYPE], per channel
    sigma,       \* model['sigma'], per latent dimension
    omega,       \* model['omega'], per latent dimension
    chol,        \* model['chol'], per latent dimension
    optRes,      \* what gp.optim returned last, per latent dimension
    hLog,        \* the iterations in which gp.optim was invoked (history)
    optimCalls,  \* how many times gp.optim was invoked (history)
    mu,          \* model['mu'][trial][dim], one time bin per trial
    a,           \* model['a'][dim][channel]
    b,           \* model['b'][0][channel], the intercept row
    consMu,      \* options['constrain_mu']
    consA,       \* options['constrain_a']
    eps,         \* options['eps']
    last,        \* the projector called last (history)
    passes,      \* how many projector calls were made (history)
    y,           \* model['y'][trial][channel], one time bin per trial
    fields,      \* per prerequisite field: present, None, or not a key of model
    named,       \* the fields named by the error initialize raised
    written,     \* the keys of model initialize has assigned
    inner,       \* the loop variable `i` of estep and of mstep
    aliased,     \* mstep's local `a` is still the array model['a']
    w,           \* model['w'][trial][dim]
    v,           \* model['v'][trial][dim]
    dmu,         \* model['dmu'][trial][dim]
    da,          \* model['da'][dim][channel]
    db,          \* model['db'][0][channel]
    noise,       \* model['noise'][channel]
    trial,       \* the loop variable `trial` of estep
    zdim,        \* the loop variable `z_dim` of estep
    etaLoc,      \* estep's local `eta`, per channel
    rate,        \* estep's local `r`, per channel
    residual,    \* estep's buffer `residual`, per channel
    U,           \* estep's buffer `U`, per channel
    aLoc,        \* the array mstep's local `a` is bound to
    muLoc,       \* the array mstep's local `mu_` is a view of
    wrote,       \* the writes of estep's trials so far in this call (history)
    dictKeys,    \* the keys of the dict model
    env          \* the inputs of a run of SpecEM: solves that raise, increments
                 \* the solvers return, what uninitialised memory holds

drvVars == <<pc, it, loopIt, niter, startIt, hperiod, learn_post, learn_param,
             learn_hyper, ncallbacks, cbIdx, gcEnabled, converged, outcome, logged>>
hypVars == <<sigma, omega, chol, optRes, hLog, optimCalls>>
numVars == <<mu, a, b, consMu, consA, eps, last, passes>>
chanVars == <<y, fields, named, written, inner, aliased>>
emVars == <<w, v, dmu, da, db, noise, trial, zdim, etaLoc, rate, residual, U,
           aLoc, muLoc, wrote, dictKeys, env>>
vars == <<drvVars, ytype, hypVars, numVars, chanVars, emVars>>

(***************************************************************************)
(* Bounds of the model.                                                    *)
(***************************************************************************)
MaxNiter == 6
MaxStart == 1
MaxPeriod == 3
MaxCallbacks == 1
MaxHSteps == 3

(***************************************************************************)
(* Program constants.                                                      *)
(***************************************************************************)
UNUSED == 0
SPIKE == 1
LFP == 2
INACTIVE == -1

ZNDIM == 2
NCH == 2

OmegaLo == 100000
OmegaHi == 10000000
SigmasqLo == 10
SigmasqHi == 10000
IscloseAtol == 100
IscloseRtolInv == 100000

Dims == 1..ZNDIM
Channels == 1..NCH

Abs(x) == IF x < 0 THEN -x ELSE x

\* numpy.core.umath.sqrt on the fixed-point grid: the largest r with r*r <= n
Sqrt(n) == CHOOSE r \in 0..100 : r * r <= n /\ n < (r + 1) * (r + 1)

\* np.isclose(x, y): |x - y| <= atol + rtol * |y|, rtol = 1 / IscloseRtolInv
\* (exact on integers: d <= atol + |y|/R  iff  d <= atol + floor(|y|/R))
IsClose(x, z) == Abs(x - z) <= IscloseAtol + (Abs(z) \div IscloseRtolInv)

\* mutant: np.all in place of np.any
AcceptOmegaAll(omega_new) == ~(IsClose(omega_new, OmegaLo) /\ IsClose(omega_new, OmegaHi))

\* `not np.any(np.isclose(omega_new, options['omega_bound']))`
AcceptOmega(omega_new) == ~(IsClose(omega_new, OmegaLo) \/ IsClose(omega_new, OmegaHi))

\* ichol_gauss(nbin, omega, rank) * sigma: the factor is determined by its inputs
ichol_gauss(om, sg) == <<om, sg>>

\* what gp.optim may return: values within the bounds it was given
SigmasqCand == {SigmasqLo, SigmasqHi}
OmegaCand == {OmegaLo, 200000, OmegaHi - 200, OmegaHi}
OptimResult == [sigmasq : SigmasqCand, omega : OmegaCand]
NoResult == [sigmasq |-> 0, omega |-> 0]

\* mutant: the loop variable in place of model['it']
HStepDueLoopVar(i, k, p) == k % p = 0

\* `model[ITER] % options[HPERIOD] != 0: return`, negated
HStepDue(i, k, p) == i % p = 0

\* the arrays as the driver sees them: only their norms, through Comparisons
EmIdle ==
    /\ w = << >> /\ v = << >> /\ dmu = << >> /\ da = << >> /\ db = << >>
    /\ noise = << >> /\ trial = 0 /\ zdim = 0 /\ etaLoc = << >> /\ rate = << >>
    /\ residual = << >> /\ U = << >> /\ aLoc = << >> /\ muLoc = << >>
    /\ wrote = {} /\ dictKeys = {} /\ env = << >>

ChanIdle ==
    /\ y = << >> /\ fields = << >> /\ named = {} /\ written = {}
    /\ inner = 0 /\ aliased = TRUE

NumIdle ==
    /\ mu = << >> /\ a = << >> /\ b = << >>
    /\ consMu = TRUE /\ consA = "inf" /\ eps = <<0, 1>>
    /\ last = "none" /\ passes = 0

(***************************************************************************)
(* vem                                                                     *)
(***************************************************************************)
Leave(how) ==
    /\ pc' = "returned"
    /\ outcome' = how
    /\ gcEnabled' = TRUE
    /\ UNCHANGED <<it, loopIt, cbIdx>>

Iterate(k) ==
    /\ pc' = "estep"
    /\ loopIt' = k
    /\ it' = it + 1
    /\ cbIdx' = 0
    /\ gcEnabled' = FALSE
    /\ UNCHANGED outcome

\* vem up to the first step of the first iteration
VemEnter ==
    /\ pc = "idle"
    /\ startIt' = it
    /\ IF it < niter THEN Iterate(it) ELSE Leave("Exhausted")
    /\ UNCHANGED <<niter, hperiod, learn_post, learn_param, learn_hyper,
                   ncallbacks, converged, logged, ytype, hypVars, numVars, chanVars, emVars>>

\* estep(model): every solve is inside try/except Exception
EStep ==
    /\ pc = "estep"
    /\ pc' = "mstep"
    /\ IF learn_post
       THEN \E woodburyFails, varianceFails \in BOOLEAN :
                logged' = (woodburyFails \/ varianceFails)
       ELSE logged' = FALSE
    /\ UNCHANGED <<it, loopIt, niter, startIt, hperiod, learn_post, learn_param,
                   learn_hyper, ncallbacks, cbIdx, gcEnabled, converged, outcome,
                   ytype, hypVars, numVars, chanVars, emVars>>

HasType(t) == \E c \in Channels : ytype[c] = t

\* mstep(model): the Newton solves of a SPIKE channel are inside try/except,
\* the closed-form solves of an LFP channel are not
MStep ==
    /\ pc = "mstep"
    /\ IF learn_param
       THEN \E newtonFails, lfpFails \in BOOLEAN :
                IF lfpFails /\ HasType(LFP)
                THEN /\ pc' = "raised"
                     /\ outcome' = "LinAlgError"
                     /\ logged' = (newtonFails /\ HasType(SPIKE))
                ELSE /\ pc' = "hstep"
                     /\ logged' = (newtonFails /\ HasType(SPIKE))
                     /\ UNCHANGED outcome
       ELSE pc' = "hstep" /\ logged' = FALSE /\ UNCHANGED outcome
    /\ UNCHANGED <<it, loopIt, niter, startIt, hperiod, learn_post, learn_param,
                   learn_hyper, ncallbacks, cbIdx, gcEnabled, converged, ytype,
                   hypVars, numVars, chanVars, emVars>>

\* hstep(model), given what gp.optim returns for each latent dimension
hstep(res) ==
    IF learn_hyper /\ HStepDue(it, loopIt, hperiod)
    THEN /\ omega' = [d \in Dims |->
                        IF AcceptOmega(res[d].omega) THEN res[d].omega ELSE omega[d]]
         /\ sigma' = [d \in Dims |-> Sqrt(res[d].sigmasq)]
         /\ chol' = [d \in Dims |-> ichol_gauss(omega'[d], sigma'[d])]
         /\ hLog' = hLog \cup {it}
         /\ optimCalls' = optimCalls + ZNDIM
    ELSE UNCHANGED <<omega, sigma, chol, hLog, optimCalls>>

HStep ==
    /\ pc = "hstep"
    /\ pc' = "callbacks"
    /\ \E res \in [Dims -> OptimResult] : hstep(res)
    /\ logged' = FALSE
    /\ UNCHANGED <<it, loopIt, niter, startIt, hperiod, learn_post, learn_param,
                   learn_hyper, ncallbacks, cbIdx, gcEnabled, converged, outcome,
                   ytype, optRes, numVars, chanVars, emVars>>

\* `try: callback(model) finally: pass`
Callback ==
    /\ pc = "callbacks"
    /\ cbIdx < ncallbacks
    /\ \E raises \in BOOLEAN :
          IF raises
          THEN pc' = "raised" /\ outcome' = "CallbackError" /\ UNCHANGED cbIdx
          ELSE cbIdx' = cbIdx + 1 /\ UNCHANGED <<pc, outcome>>
    /\ UNCHANGED <<it, loopIt, niter, startIt, hperiod, learn_post, learn_param,
                   learn_hyper, ncallbacks, gcEnabled, converged, logged, ytype,
                   hypVars, numVars, chanVars, emVars>>

Comparisons == [dmu : BOOLEAN, da : BOOLEAN, db : BOOLEAN]

\* norm(dmu) < tol*norm(mu) and norm(da) < tol*norm(a) and norm(db) < tol*norm(b)
JointPredicate(c) == c.dmu /\ c.da /\ c.db

\* the convergence check, and the loop's next iteration or its end
ConvergenceCheck ==
    /\ pc = "callbacks"
    /\ cbIdx = ncallbacks
    /\ \E c \in Comparisons :
          /\ converged' = JointPredicate(c)
          /\ IF converged' THEN Leave("Converged")
             ELSE IF loopIt + 1 < niter THEN Iterate(loopIt + 1)
             ELSE Leave("Exhausted")
    /\ UNCHANGED <<niter, startIt, hperiod, learn_post, learn_param, learn_hyper,
                   ncallbacks, logged, ytype, hypVars, numVars, chanVars, emVars>>

ChannelTypes == {<<SPIKE, LFP>>, <<SPIKE, INACTIVE>>}

\* the steps the options switch on
OptionSets == {<<TRUE, TRUE, TRUE>>, <<TRUE, TRUE, FALSE>>, <<FALSE, FALSE, TRUE>>}

Init ==
    /\ pc = "idle"
    /\ it \in 0..MaxStart
    /\ loopIt = 0
    /\ startIt = it
    /\ niter \in 0..MaxNiter
    /\ hperiod \in 1..MaxPeriod
    /\ \E o \in OptionSets :
          learn_post = o[1] /\ learn_param = o[2] /\ learn_hyper = o[3]
    /\ ncallbacks \in 0..MaxCallbacks
    /\ cbIdx = 0
    /\ gcEnabled = TRUE
    /\ converged = FALSE
    /\ outcome = "none"
    /\ logged = FALSE
    /\ ytype \in ChannelTypes
    /\ sigma = [d \in Dims |-> 100]
    /\ omega = [d \in Dims |-> 1000000]
    /\ chol = [d \in Dims |-> ichol_gauss(omega[d], sigma[d])]
    /\ optRes = [d \in Dims |-> NoResult]
    /\ hLog = {}
    /\ optimCalls = 0
    /\ NumIdle
    /\ ChanIdle
    /\ EmIdle

Next == VemEnter \/ EStep \/ MStep \/ HStep \/ Callback \/ ConvergenceCheck

Spec == Init /\ [][Next]_vars

(***************************************************************************)
(* SpecH: the H-step on its own.  The caller advances model['it'] (vem,    *)
(* lines 478-479) and calls hstep; optRes keeps what gp.optim returned.    *)
(***************************************************************************)
OmegaInit == {1000000, OmegaHi - 1}

Advance ==
    /\ pc = "advance"
    /\ it < niter
    /\ pc' = "hstep"
    /\ loopIt' = it
    /\ it' = it + 1
    /\ UNCHANGED <<niter, startIt, hperiod, learn_post, learn_param, learn_hyper,
                   ncallbacks, cbIdx, gcEnabled, converged, outcome, logged,
                   ytype, hypVars, numVars, chanVars, emVars>>

HStepObserved ==
    /\ pc = "hstep"
    /\ pc' = "advance"
    /\ \E res \in [Dims -> OptimResult] :
          /\ hstep(res)
          /\ optRes' = IF optimCalls' # optimCalls THEN res ELSE optRes
    /\ UNCHANGED <<it, loopIt, niter, startIt, hperiod, learn_post, learn_param,
                   learn_hyper, ncallbacks, cbIdx, gcEnabled, converged, outcome,
                   logged, ytype, numVars, chanVars, emVars>>

InitH ==
    /\ pc = "advance"
    /\ it \in 0..MaxStart
    /\ loopIt = 0
    /\ startIt = it
    /\ niter = MaxHSteps
    /\ hperiod \in 1..MaxPeriod
    /\ learn_post = TRUE
    /\ learn_param = TRUE
    /\ learn_hyper \in BOOLEAN
    /\ ncallbacks = 0
    /\ cbIdx = 0
    /\ gcEnabled = FALSE
    /\ converged = FALSE
    /\ outcome = "none"
    /\ logged = FALSE
    /\ ytype = <<SPIKE, LFP>>
    /\ sigma = [d \in Dims |-> 100]
    /\ omega \in [Dims -> OmegaInit]
    /\ chol = [d \in Dims |-> ichol_gauss(omega[d], sigma[d])]
    /\ optRes = [d \in Dims |-> NoResult]
    /\ hLog = {}
    /\ optimCalls = 0
    /\ NumIdle
    /\ ChanIdle
    /\ EmIdle

NextH == Advance \/ HStepObserved

SpecH == InitH /\ [][NextH]_vars

(***************************************************************************)
(* Claims about the driver.                                                *)
(***************************************************************************)
InLoop == pc \in {"estep", "mstep", "hstep", "callbacks"}
Left == pc \in {"returned", "raised"}
Max(x, z) == IF x < z THEN z ELSE x

\* What holds of the loop counter whether or not vem is left normally: from
\* counter value k at most max(0, niter - k) iterations are executed, and the
\* counter is one more than the loop variable in every iteration.
IterationBudget ==
    /\ it - startIt <= Max(0, niter - startIt)
    /\ InLoop => it = loopIt + 1 /\ it <= niter

\* C1: vem always ends in one of two outcomes: Converged, at the end of the
\* first iteration whose joint convergence predicate holds, or Exhausted, once
\* the counter has reached niter; from counter value k it executes at most
\* max(0, niter - k) iterations, the counter rising by one in each.
C1_TwoOutcomes ==
    /\ Left => outcome \in {"Converged", "Exhausted"}
    /\ outcome = "Converged" => converged
    /\ outcome = "Exhausted" => ~converged /\ it >= niter
    /\ InLoop => ~converged
    /\ IterationBudget

\* C2: an exception raised by a callback is caught and ignored: vem is never
\* left by it (the next callback and the convergence test follow instead).
C2_CallbackFailureSuppressed == outcome # "CallbackError"

\* C3: no failing linear solve of estep or mstep aborts the run: vem is never
\* left by a LinAlgError.
C3_SolveFailureLocal == ~(pc = "raised" /\ outcome = "LinAlgError")

\* The iterations whose H-step has been run.
HDone ==
    IF pc \in {"callbacks", "returned"} \/ outcome = "CallbackError"
    THEN startIt + 1 .. it
    ELSE startIt + 1 .. it - 1

C4_Invoked ==
    /\ learn_hyper => hLog = {k \in HDone : k % hperiod = 0}
    /\ ~learn_hyper => hLog = {}
    /\ optimCalls = ZNDIM * Cardinality(hLog)

C4_Skipped ==
    pc = "hstep" /\ it % hperiod # 0 => UNCHANGED <<sigma, omega, chol>>

\* C4: with the H-step enabled and period p, gp.optim is invoked in outer
\* iteration k (the value of model['it'] after its increment) exactly when
\* k mod p = 0, once per latent dimension, and in every other iteration hstep
\* leaves sigma, omega and the prior factor unchanged.
C4_HStepPeriod == []C4_Invoked /\ [][C4_Skipped]_vars

\* C4 witness: period 3, gp.optim invoked in iterations 3 and 6 and in no other.
C4_Witness ==
    /\ hperiod = 3 /\ startIt = 0 /\ it = 6 /\ pc = "returned"
    /\ hLog = {3, 6} /\ optimCalls = 2 * ZNDIM

\* C10: the garbage collector is off while the loop runs and on again whenever
\* vem has been left, by return or by exception.
C10_GcRestored ==
    /\ InLoop => ~gcEnabled
    /\ Left => gcEnabled

(***************************************************************************)
(* Claims about the H-step.                                                *)
(***************************************************************************)
OmegaBound == {OmegaLo, OmegaHi}

C5_Inside == \A d \in Dims : OmegaLo < omega[d] /\ omega[d] < OmegaHi

C5_Rule ==
    optimCalls' # optimCalls =>
        \A d \in Dims :
            /\ sigma'[d] = Sqrt(optRes'[d].sigmasq)
            /\ optRes'[d].omega \in OmegaBound => omega'[d] = omega[d]
            /\ omega'[d] # omega[d] =>
                   omega'[d] = optRes'[d].omega /\ optRes'[d].omega \notin OmegaBound

\* C5: in hstep, for every latent dimension, the timescale gp.optim returns
\* replaces omega[dim] only if it is at neither end of omega_bound (else the
\* previous value stays), the returned scale is always taken
\* (sigma[dim] = sqrt(sigmasq)), and an omega that starts strictly inside the
\* bounds stays strictly inside after any number of H-steps.
C5_OmegaAccept == []C5_Inside /\ [][C5_Rule]_vars

\* C5 witness: one H-step in which dimension 1's timescale came back at the
\* upper bound and was refused while its scale, at the lower bound, was taken,
\* and dimension 2's timescale was taken.
C5_Witness ==
    /\ optimCalls > 0
    /\ optRes[1].omega = OmegaHi /\ omega[1] = 1000000
    /\ optRes[1].sigmasq = SigmasqLo /\ sigma[1] = Sqrt(SigmasqLo)
    /\ optRes[2].omega = 200000 /\ omega[2] = 200000

(***************************************************************************)
(* The arrays.  A float is modelled by an exact rational <<n, d>>, d > 0,  *)
(* in lowest terms: what the claims call "up to floating-point tolerance"  *)
(* is equality here.  One time bin per trial, one regressor (the           *)
(* intercept, h = 1), so eta[trial][c] = sum_d mu[trial][d]*a[d][c] + b[c].*)
(***************************************************************************)
NTRIAL == 2
Trials == 1..NTRIAL

RECURSIVE GCD(_, _)
GCD(x, z) == IF z = 0 THEN x ELSE GCD(z, x % z)

Q(n, d) ==
    LET g == GCD(Abs(n), Abs(d))
    IN  IF d < 0 THEN <<(-n) \div g, (-d) \div g>> ELSE <<n \div g, d \div g>>

QInt(n) == <<n, 1>>
QZero == <<0, 1>>
QAdd(x, z) ==
    LET g == GCD(x[2], z[2])
    IN  Q(x[1] * (z[2] \div g) + z[1] * (x[2] \div g), (x[2] \div g) * z[2])
QNeg(x) == <<-x[1], x[2]>>
QSub(x, z) == QAdd(x, QNeg(z))
QMul(x, z) ==
    LET g == GCD(Abs(x[1]), z[2])
        h == GCD(Abs(z[1]), x[2])
    IN  IF x[1] = 0 \/ z[1] = 0 THEN QZero
        ELSE <<(x[1] \div g) * (z[1] \div h), (x[2] \div h) * (z[2] \div g)>>
QDiv(x, z) == QMul(x, IF z[1] < 0 THEN <<-z[2], -z[1]>> ELSE <<z[2], z[1]>>)
QAbs(x) == <<Abs(x[1]), x[2]>>
QLe(x, z) == x[1] * z[2] <= z[1] * x[2]
QMax(x, z) == IF QLe(x, z) THEN z ELSE x

\* f[1] + ... + f[n]
RECURSIVE QSum(_, _)
QSum(f, n) == IF n = 0 THEN QZero ELSE QAdd(QSum(f, n - 1), f[n])

\* max(f[1], ..., f[n]), n >= 1
RECURSIVE QMaxOf(_, _)
QMaxOf(f, n) == IF n = 1 THEN f[1] ELSE QMax(QMaxOf(f, n - 1), f[n])

\* the linear predictor mu @ a + h @ b
Eta(m) ==
    [tr \in Trials |-> [c \in Channels |->
        QAdd(QSum([d \in Dims |-> QMul(m.mu[tr][d], m.a[d][c])], ZNDIM), m.b[c])]]

\* mu_.mean(axis=0)
mean_over_trials(m) ==
    [d \in Dims |-> QDiv(QSum([tr \in Trials |-> m.mu[tr][d]], NTRIAL), QInt(NTRIAL))]

\* constrain_mu(model)
constrain_mu(on, m) ==
    IF ~on THEN m
    ELSE LET mean == mean_over_trials(m)
         IN  [m EXCEPT
                !.b = [c \in Channels |->
                        QAdd(m.b[c], QSum([d \in Dims |-> QMul(mean[d], m.a[d][c])], ZNDIM))],
                !.mu = [tr \in Trials |-> [d \in Dims |-> QSub(m.mu[tr][d], mean[d])]]]

\* norm(a, ord=method, axis=1)[d]
norm(row, method) ==
    IF method = "inf" THEN QMaxOf([c \in Channels |-> QAbs(row[c])], NCH)
    ELSE QSum([c \in Channels |-> QAbs(row[c])], NCH)

\* a @ Vh.T
a_VhT(a_, vh) ==
    [d \in Dims |-> [k \in Dims |->
        QSum([c \in Channels |-> QMul(a_[d][c], vh[k][c])], NCH)]]

\* Orthogonal matrices with rational entries, the candidates for Vh.
Cosines == {<<1, 0, 1>>, <<0, 1, 1>>}
Signs == {1}
Rot(c, s) == <<<<c, s>>, <<QSub(QZero, s), c>>>>
Refl(c, s) == <<<<c, s>>, <<s, QSub(QZero, c)>>>>
Orthogonal ==
    UNION {{Rot(Q(i * t[1], t[3]), Q(j * t[2], t[3])),
            Refl(Q(i * t[1], t[3]), Q(j * t[2], t[3]))} :
           <<i, j, t>> \in Signs \X Signs \X Cosines}

\* svd(a, full_matrices=False) returns U, s, Vh with a = U @ diag(s) @ Vh, U and
\* Vh orthogonal, s >= 0 in descending order.  Vh is such a factor exactly when
\* the columns of a @ Vh.T are orthogonal with descending norms (they are then
\* U @ diag(s)); where the singular values coincide or vanish it is not unique.
IsVh(a_, vh) ==
    LET M == a_VhT(a_, vh)
        dot(j, k) == QSum([d \in Dims |-> QMul(M[d][j], M[d][k])], ZNDIM)
    IN  /\ \A j, k \in Dims : j # k => dot(j, k) = QZero
        /\ \A j, k \in Dims : j < k => QLe(dot(k, k), dot(j, j))

Svd(a_) == {vh \in Orthogonal : IsVh(a_, vh)}

\* what svd may return for the method in use (no svd call otherwise)
SvdOutcomes(method, a_) == IF method = "svd" THEN Svd(a_) ELSE {<< >>}

\* mutant: the latent is divided by the scale, like the loading
constrain_a_divides(method, e, vh, m) ==
    IF method \in {"off", "none"} THEN m
    ELSE IF method = "svd"
    THEN LET M == a_VhT(m.a, vh)
         IN  [m EXCEPT
                !.mu = [tr \in Trials |-> [k \in Dims |->
                          QSum([d \in Dims |-> QMul(m.mu[tr][d], M[d][k])], ZNDIM)]],
                !.a = vh]
    ELSE LET s == [d \in Dims |-> QAdd(norm(m.a[d], method), e)]
         IN  [m EXCEPT
                !.a = [d \in Dims |-> [c \in Channels |-> QDiv(m.a[d][c], s[d])]],
                !.mu = [tr \in Trials |-> [d \in Dims |-> QDiv(m.mu[tr][d], s[d])]]]

\* constrain_a(model); vh is what svd returns
constrain_a(method, e, vh, m) ==
    IF method \in {"off", "none"} THEN m
    ELSE IF method = "svd"
    THEN LET M == a_VhT(m.a, vh)
         IN  [m EXCEPT
                !.mu = [tr \in Trials |-> [k \in Dims |->
                          QSum([d \in Dims |-> QMul(m.mu[tr][d], M[d][k])], ZNDIM)]],
                !.a = vh]
    ELSE LET s == [d \in Dims |-> QAdd(norm(m.a[d], method), e)]
         IN  [m EXCEPT
                !.a = [d \in Dims |-> [c \in Channels |-> QDiv(m.a[d][c], s[d])]],
                !.mu = [tr \in Trials |-> [d \in Dims |-> QMul(m.mu[tr][d], s[d])]]]

\* the arrays of the model state, before and after a step
Model == [mu |-> mu, a |-> a, b |-> b]
ModelAfter == [mu |-> mu', a |-> a', b |-> b']

(***************************************************************************)
(* SpecProj: the Constraint Projector applied to drawn model states.       *)
(***************************************************************************)
MaxPasses == 2

QMat(rows) == [i \in DOMAIN rows |-> [j \in DOMAIN rows[i] |-> Q(rows[i][j][1], rows[i][j][2])]]
QVec(row) == [j \in DOMAIN row |-> Q(row[j][1], row[j][2])]

MuInit == {QMat(<<<< <<1, 1>>, <<2, 1>> >>, << <<3, 1>>, <<-2, 1>> >>>>),
           QMat(<<<< <<0, 1>>, <<0, 1>> >>, << <<0, 1>>, <<0, 1>> >>>>),
           QMat(<<<< <<1, 2>>, <<0, 1>> >>, << <<-1, 2>>, <<4, 1>> >>>>)}

AInit == {QMat(<<<< <<3, 1>>, <<-4, 1>> >>, << <<0, 1>>, <<0, 1>> >>>>),
          QMat(<<<< <<1, 2>>, <<0, 1>> >>, << <<0, 1>>, <<2, 1>> >>>>),
          QMat(<<<< <<3, 1>>, <<0, 1>> >>, << <<4, 1>>, <<0, 1>> >>>>),
          QMat(<<<< <<1, 1>>, <<-2, 1>> >>, << <<2, 1>>, <<1, 1>> >>>>),
          QMat(<<<< <<1, 4>>, <<1, 4>> >>, << <<1, 100>>, <<0, 1>> >>>>),
          QMat(<<<< <<0, 1>>, <<0, 1>> >>, << <<0, 1>>, <<0, 1>> >>>>)}

BInit == {QVec(<< <<0, 1>>, <<0, 1>> >>), QVec(<< <<1, 1>>, <<-1, 2>> >>)}

Methods == {"off", "none", "inf", "one", "svd"}
EpsValues == {Q(1, 2)}

DrvIdle ==
    /\ it = 0 /\ loopIt = 0 /\ startIt = 0 /\ niter = 0 /\ hperiod = 1
    /\ learn_post = TRUE /\ learn_param = TRUE /\ learn_hyper = TRUE
    /\ ncallbacks = 0 /\ cbIdx = 0 /\ gcEnabled = TRUE /\ converged = FALSE
    /\ outcome = "none" /\ logged = FALSE

HypIdle ==
    /\ sigma = [d \in Dims |-> 100]
    /\ omega = [d \in Dims |-> 1000000]
    /\ chol = [d \in Dims |-> ichol_gauss(omega[d], sigma[d])]
    /\ optRes = [d \in Dims |-> NoResult]
    /\ hLog = {}
    /\ optimCalls = 0

InitProj ==
    /\ pc = "projector"
    /\ DrvIdle
    /\ HypIdle
    /\ ytype = <<SPIKE, SPIKE>>
    /\ mu \in MuInit
    /\ a \in AInit
    /\ b \in BInit
    /\ consMu \in BOOLEAN
    /\ consA \in Methods
    /\ eps \in EpsValues
    /\ last = "none"
    /\ passes = 0
    /\ ChanIdle
    /\ EmIdle

ConstrainMu ==
    /\ pc = "projector"
    /\ passes < MaxPasses
    /\ LET m == constrain_mu(consMu, Model)
       IN  mu' = m.mu /\ a' = m.a /\ b' = m.b
    /\ last' = "constrain_mu"
    /\ passes' = passes + 1
    /\ UNCHANGED <<drvVars, ytype, hypVars, consMu, consA, eps, chanVars, emVars>>

ConstrainA ==
    /\ pc = "projector"
    /\ passes < MaxPasses
    /\ \E vh \in SvdOutcomes(consA, a) :
          LET m == constrain_a(consA, eps, vh, Model)
          IN  mu' = m.mu /\ a' = m.a /\ b' = m.b
    /\ last' = "constrain_a"
    /\ passes' = passes + 1
    /\ UNCHANGED <<drvVars, ytype, hypVars, consMu, consA, eps, chanVars, emVars>>

NextProj == ConstrainMu \/ ConstrainA

SpecProj == InitProj /\ [][NextProj]_vars

(***************************************************************************)
(* Claims about the Constraint Projector.                                  *)
(***************************************************************************)
\* C6: every Constraint Projector pass (constrain_mu; constrain_a with a vector
\* norm or with 'svd') leaves the linear predictor eta = mu.a + regression(h,b)
\* unchanged for every trial, time and channel.
C6_EtaPreserved == [][Eta(ModelAfter) = Eta(Model)]_vars

\* C6 witness: centering moved the mean of mu into b (from 0 to 6 on channel
\* 1), then normalisation rescaled a (rows 3,0 and 4,0) and mu.
C6_Witness ==
    /\ passes = 2 /\ last = "constrain_a" /\ consMu /\ consA = "inf"
    /\ a = QMat(<<<< <<6, 7>>, <<0, 1>> >>, << <<8, 9>>, <<0, 1>> >>>>)
    /\ mu[1][1] = Q(-7, 2)
    /\ b = QVec(<< <<6, 1>>, <<0, 1>> >>)

\* C9: the Constraint Projector is idempotent: a projector called twice in
\* succession with the same configuration changes neither mu, a nor b the
\* second time.
C9_Idempotent ==
    [][passes' = passes + 1 /\ last' = last => <<mu, a, b>>' = <<mu, a, b>>]_vars

RowIsZero(row) == \A c \in Channels : row[c] = QZero

SecondPassEffect ==
    passes' = passes + 1 /\ last' = last =>
        /\ Eta(ModelAfter) = Eta(Model)
        /\ last = "constrain_mu" => <<mu, a, b>>' = <<mu, a, b>>
        /\ last = "constrain_a" /\ consA \in {"off", "none"} =>
               <<mu, a, b>>' = <<mu, a, b>>
        /\ last = "constrain_a" /\ consA \in {"inf", "one"} =>
               /\ b' = b
               /\ \A d \in Dims :
                     (a'[d] = a[d]) <=>
                         (RowIsZero(a[d]) \/ QAdd(norm(a[d], consA), eps) = QInt(1))
        /\ last = "constrain_a" /\ consA = "svd" =>
               /\ b' = b
               /\ a' \in Orthogonal

\* What a second pass in succession does do: constrain_mu changes nothing;
\* constrain_a changes nothing when it is off; with a vector norm it leaves row
\* d of a alone exactly when the row is zero or has norm 1 - eps, and rescales
\* it (and mu) otherwise; with 'svd' it returns some orthogonal basis again,
\* not necessarily the same; eta is never changed.
SecondPassRule == [][SecondPassEffect]_vars

(***************************************************************************)
(* initialize.  mu, a and b stand for the locals of initialize once the    *)
(* posterior, the loading and the regression have their initial values     *)
(* (factor analysis and least squares are library code); what initialize   *)
(* does with them from there on is modelled.                               *)
(***************************************************************************)
Fields == {"y", "h", "sigma", "omega"}
\* the order in which initialize reads them from model
ReadOrder == <<"y", "h", "sigma", "omega">>
Status == {"present", "none", "missing"}

PREREQUISITE_FIELDS == {}

\* model.get(field) is None
IsAbsent(f) == fields[f] # "present"

\* check_model: the fields whose absence it reports
missing_fields == {f \in PREREQUISITE_FIELDS : IsAbsent(f)}

\* the first model[...] lookup of initialize that raises KeyError
FirstMissingKey ==
    LET i == CHOOSE k \in DOMAIN ReadOrder :
                 /\ fields[ReadOrder[k]] = "missing"
                 /\ \A j \in 1..(k - 1) : fields[ReadOrder[j]] # "missing"
    IN  ReadOrder[i]

\* var(y_, axis=0, ddof=0)[c] == 0: every observation of the channel is the same
NoiseIsZero(c) == \A tr \in Trials : y[tr][c] = y[1][c]

\* model[Y_TYPE][model['noise'] == 0] = INACTIVE
MarkInactive == [c \in Channels |-> IF NoiseIsZero(c) THEN INACTIVE ELSE ytype[c]]

\* x[:, types == INACTIVE] = 0
ZeroInactiveColumns(types) ==
    /\ a' = [d \in Dims |-> [c \in Channels |->
                IF types[c] = INACTIVE THEN QZero ELSE a[d][c]]]
    /\ b' = [c \in Channels |-> IF types[c] = INACTIVE THEN QZero ELSE b[c]]

InitFails(error, names, keys) ==
    /\ pc' = "raised"
    /\ outcome' = error
    /\ named' = names
    /\ written' = keys

ModelKeys == {"noise", "rank", "a", "b", "mu", "w", "v", "chol", "dmu", "da", "db",
              "segment"}

initialize ==
    /\ pc = "init"
    /\ IF missing_fields # {}
       THEN /\ InitFails("ValueError", missing_fields, {})
            /\ UNCHANGED <<ytype, a, b>>
       ELSE IF \E f \in Fields : fields[f] = "missing"
       THEN /\ InitFails("KeyError", {FirstMissingKey}, {})
            /\ UNCHANGED <<ytype, a, b>>
       ELSE IF fields["y"] = "none"
       THEN \* y.shape
            /\ InitFails("AttributeError", {}, {})
            /\ UNCHANGED <<ytype, a, b>>
       ELSE IF fields["h"] = "none" /\ HasType(SPIKE)
       THEN \* h.reshape, in the least squares for b
            /\ InitFails("AttributeError", {}, {})
            /\ UNCHANGED <<ytype, a, b>>
       ELSE IF fields["omega"] = "none" \/ fields["sigma"] = "none"
       THEN \* omega[z_dim], sigma[z_dim]
            /\ InitFails("TypeError", {}, {"noise", "rank"})
            /\ ytype' = MarkInactive
            /\ ZeroInactiveColumns(MarkInactive)
       ELSE IF fields["h"] = "none"
       THEN \* model['h'].shape in update_w
            /\ InitFails("AttributeError", {}, ModelKeys \ {"segment"})
            /\ ytype' = MarkInactive
            /\ ZeroInactiveColumns(MarkInactive)
       ELSE /\ pc' = "ready"
            /\ written' = ModelKeys
            /\ ytype' = MarkInactive
            /\ ZeroInactiveColumns(MarkInactive)
            /\ UNCHANGED <<outcome, named>>
    /\ UNCHANGED <<it, loopIt, niter, startIt, hperiod, learn_post, learn_param,
                   learn_hyper, ncallbacks, cbIdx, gcEnabled, converged, logged,
                   hypVars, mu, consMu, consA, eps, last, passes, y, fields,
                   inner, aliased,
                   emVars>>

(***************************************************************************)
(* SpecInit: initialize called on models whose prerequisite fields are     *)
(* present, None or not there.                                             *)
(***************************************************************************)
DeclaredTypes == {<<SPIKE, SPIKE>>, <<LFP, LFP>>}

InitInit ==
    /\ pc = "init"
    /\ DrvIdle
    /\ HypIdle
    /\ ytype \in DeclaredTypes
    /\ mu = QMat(<<<< <<1, 1>>, <<2, 1>> >>, << <<3, 1>>, <<-2, 1>> >>>>)
    /\ a = QMat(<<<< <<1, 1>>, <<-2, 1>> >>, << <<2, 1>>, <<1, 1>> >>>>)
    /\ b = QVec(<< <<1, 1>>, <<-1, 2>> >>)
    /\ consMu = TRUE /\ consA = "inf" /\ eps \in EpsValues
    /\ last = "none" /\ passes = 0
    /\ y = <<<<1, 0>>, <<0, 0>>>>
    /\ fields \in [Fields -> Status]
    /\ named = {} /\ written = {}
    /\ inner = 0 /\ aliased = TRUE
    /\ EmIdle

NextInit == initialize

SpecInit == InitInit /\ [][NextInit]_vars

AbsentFields == {f \in Fields : IsAbsent(f)}

\* C8: when a required field is missing or None, initialize fails at once,
\* before it computes any model field, with an error naming the missing fields.
C8_MissingPrerequisite ==
    pc # "init" /\ AbsentFields # {} =>
        /\ pc = "raised"
        /\ named = AbsentFields
        /\ written = {}

(***************************************************************************)
(* SpecChan: initialize, then vem iterations with learn_post, learn_param  *)
(* and learn_hyper on, followed through the arrays.  One action is one     *)
(* pass of the inner loop of estep or of mstep.  The Newton and            *)
(* least-squares increments are inputs drawn from Delta; the step that     *)
(* applies them and the projector call that ends the pass are modelled.    *)
(* With 'svd', a pass is followed only where the loading has a factor in   *)
(* Orthogonal.                                                             *)
(***************************************************************************)
MaxIter == 1
MaxInner == 2

\* options['e_niter'], options['m_niter']
e_niter == MaxInner
m_niter == MaxInner

Delta == {QZero, QInt(1)}
ChanMethods == {"inf", "svd"}
MuChan == {QMat(<<<< <<1, 1>>, <<2, 1>> >>, << <<3, 1>>, <<-2, 1>> >>>>)}
AChan == {QMat(<<<< <<3, 1>>, <<1, 1>> >>, << <<4, 1>>, <<2, 1>> >>>>)}
BChan == {QVec(<< <<1, 1>>, <<-1, 2>> >>)}
YChan == {<<<<1, 0>>, <<0, 1>>>>,
          <<<<1, 0>>, <<0, 0>>>>,
          <<<<0, 0>>, <<0, 0>>>>}
TypesChan == {<<SPIKE, LFP>>}
FixedResult == [d \in Dims |-> [sigmasq |-> SigmasqHi, omega |-> 200000]]

AllPresent == [f \in Fields |-> "present"]

InitChan ==
    /\ pc = "init"
    /\ DrvIdle
    /\ HypIdle
    /\ ytype \in TypesChan
    /\ mu \in MuChan
    /\ a \in AChan
    /\ b \in BChan
    /\ consMu = TRUE
    /\ consA \in ChanMethods
    /\ eps \in EpsValues
    /\ last = "none" /\ passes = 0
    /\ y \in YChan
    /\ fields = AllPresent
    /\ named = {} /\ written = {}
    /\ inner = 0 /\ aliased = TRUE
    /\ EmIdle

\* for it in range(model['it'], niter): model['it'] += 1
VemIterate ==
    /\ pc = "ready"
    /\ it < MaxIter
    /\ it' = it + 1
    /\ pc' = "estep"
    /\ inner' = 0
    /\ UNCHANGED <<loopIt, niter, startIt, hperiod, learn_post, learn_param,
                   learn_hyper, ncallbacks, cbIdx, gcEnabled, converged, outcome,
                   logged, ytype, hypVars, numVars, y, fields, named, written,
                   aliased,
                   emVars>>

IsZeroQ(x) == x = QZero

\* one pass of `for i in range(options['e_niter'])`: the increment of mu (of
\* the first trial), constrain_mu, the break test.  With increments of this
\* size norm(dmu) < tol * norm(mu) can only hold when they are zero.
EStepPass ==
    /\ pc = "estep"
    /\ \E delta_mu \in Delta :
       \E brk \in (IF IsZeroQ(delta_mu) /\ inner + 1 < e_niter THEN BOOLEAN ELSE {FALSE}) :
          LET mu1 == [tr \in Trials |-> [d \in Dims |->
                        IF tr = 1 THEN QAdd(mu[tr][d], delta_mu) ELSE mu[tr][d]]]
              m == constrain_mu(consMu, [mu |-> mu1, a |-> a, b |-> b])
              leave == inner + 1 = e_niter \/ brk
          IN  /\ mu' = m.mu /\ a' = m.a /\ b' = m.b
              /\ IF leave
                 THEN pc' = "mstep" /\ inner' = 0
                 ELSE pc' = "estep" /\ inner' = inner + 1
    /\ aliased' = TRUE
    /\ last' = "constrain_mu"
    /\ passes' = passes + 1
    /\ UNCHANGED <<it, loopIt, niter, startIt, hperiod, learn_post, learn_param,
                   learn_hyper, ncallbacks, cbIdx, gcEnabled, converged, outcome,
                   logged, ytype, hypVars, consMu, consA, eps, y, fields, named,
                   written,
                   emVars>>

\* the loop over the channels in one pass of mstep, on mstep's local a and b
ChannelUpdates(a_, b_, delta_a, delta_b, upto) ==
    [a |-> [d \in Dims |-> [c \in Channels |->
                IF c > upto THEN a_[d][c]
                ELSE IF ytype[c] = SPIKE THEN QAdd(a_[d][c], delta_a)
                ELSE IF ytype[c] = LFP THEN delta_a
                ELSE a_[d][c]]],
     b |-> [c \in Channels |->
                IF c > upto THEN b_[c]
                ELSE IF ytype[c] = SPIKE THEN QAdd(b_[c], delta_b)
                ELSE IF ytype[c] = LFP THEN delta_b
                ELSE b_[c]]]

FirstLFP == CHOOSE c \in Channels :
                ytype[c] = LFP /\ \A k \in 1..(c - 1) : ytype[k] # LFP

\* one pass of `for i in range(options['m_niter'])`: the channel updates (one
\* drawn increment serves for delta_a and delta_b), constrain_a, the break test.  Once constrain_a has replaced model['a'] by
\* Vh, the local a that the channel loop updates is no longer model['a'].
MStepPass ==
    /\ pc = "mstep"
    /\ \E delta \in Delta :
       \E brk \in (IF IsZeroQ(delta) /\ inner + 1 < m_niter
                   THEN BOOLEAN ELSE {FALSE}),
          lfpFails \in (IF HasType(LFP) THEN BOOLEAN ELSE {FALSE}) :
          IF lfpFails
          THEN \* solve raises in the first LFP channel
               LET u == ChannelUpdates(a, b, delta, delta, FirstLFP - 1)
               IN  /\ a' = IF aliased THEN u.a ELSE a
                   /\ b' = u.b
                   /\ pc' = "raised"
                   /\ outcome' = "LinAlgError"
                   /\ UNCHANGED <<mu, inner, aliased, last, passes>>
          ELSE LET u == ChannelUpdates(a, b, delta, delta, NCH)
                   a1 == IF aliased THEN u.a ELSE a
                   leave == inner + 1 = m_niter \/ brk
               IN  /\ \E vh \in SvdOutcomes(consA, a1) :
                         LET m == constrain_a(consA, eps, vh, [mu |-> mu, a |-> a1, b |-> u.b])
                         IN  mu' = m.mu /\ a' = m.a /\ b' = m.b
                   /\ aliased' = (aliased /\ consA # "svd")
                   /\ last' = "constrain_a"
                   /\ passes' = passes + 1
                   /\ IF leave
                      THEN pc' = "hstep" /\ inner' = 0
                      ELSE pc' = "mstep" /\ inner' = inner + 1
                   /\ UNCHANGED outcome
    /\ UNCHANGED <<it, loopIt, niter, startIt, hperiod, learn_post, learn_param,
                   learn_hyper, ncallbacks, cbIdx, gcEnabled, converged, logged,
                   ytype, hypVars, consMu, consA, eps, y, fields, named, written,
                   emVars>>

\* hstep, then the next iteration
HStepChan ==
    /\ pc = "hstep"
    /\ hstep(FixedResult)
    /\ pc' = "ready"
    /\ UNCHANGED <<it, loopIt, niter, startIt, hperiod, learn_post, learn_param,
                   learn_hyper, ncallbacks, cbIdx, gcEnabled, converged, outcome,
                   logged, ytype, optRes, numVars, chanVars, emVars>>

NextChan == initialize \/ VemIterate \/ EStepPass \/ MStepPass \/ HStepChan

SpecChan == InitChan /\ [][NextChan]_vars

\* a channel whose observations are all zero across all trials
Silent(c) == \A tr \in Trials : y[tr][c] = 0

InactiveAndZero(c) ==
    /\ ytype[c] = INACTIVE
    /\ b[c] = QZero
    /\ \A d \in Dims : a[d][c] = QZero

\* C7: a channel with all-zero observations is INACTIVE after initialize, with
\* zero columns of a and b, and stays so through every estep, mstep, hstep,
\* constrain_mu and constrain_a that follows.
C7_InactiveStaysZero ==
    pc # "init" => \A c \in Channels : Silent(c) => InactiveAndZero(c)

\* The same, for every configuration but constrain_a = 'svd'.
InactiveStaysZeroWithoutSvd == consA # "svd" => C7_InactiveStaysZero

\* The type alone never changes after initialize.
InactiveTypeKept ==
    pc # "init" => \A c \in Channels : Silent(c) => ytype[c] = INACTIVE

(***************************************************************************)
(* SpecEM: initialize, vem with learn_post and learn_param on and          *)
(* learn_hyper off, then postprocess, one action per step of the loops of  *)
(* estep and mstep.  With one time bin the prior factor G of a latent      *)
(* dimension is the number sigma and every Woodbury system is a scalar.    *)
(* eta, r, the residuals, w and v are computed; what the solvers return    *)
(* for the increments, which solves raise and what uninitialised memory    *)
(* holds are the inputs of a run, drawn once and kept in env.              *)
(***************************************************************************)
\* exp has no rational values: a positive, increasing stand-in with the value
\* and the slope of exp at 0
sexp(x) == IF QLe(QZero, x) THEN QAdd(QInt(1), x) ELSE QDiv(QInt(1), QSub(QInt(1), x))

\* options['dmu_bound'], options['da_bound'], options['db_bound']
dmu_bound == QInt(1)
da_bound == QInt(1)
db_bound == QInt(1)

\* mutant: the increment is left as it is
clip_nothing(delta, bound) == delta

\* clip(delta, bound), one element
clip(delta, bound) ==
    IF QLe(bound, delta) THEN bound
    ELSE IF QLe(delta, QNeg(bound)) THEN QNeg(bound)
    ELSE delta

\* prior[z_dim], one time bin: ichol_gauss is 1, times sigma (in units of 1e-2)
G(d) == Q(sigma[d], 100)

\* mu[trial, :, :] @ a + xb
eta_of(mu_t, a_, b_) ==
    [c \in Channels |->
        QAdd(QSum([d \in Dims |-> QMul(mu_t[d], a_[d][c])], ZNDIM), b_[c])]

\* sexp(eta + 0.5 * v[trial, :, :] @ (a ** 2))
r_of(eta, v_t, a_) ==
    [c \in Channels |->
        sexp(QAdd(eta[c],
                  QMul(Q(1, 2),
                       QSum([d \in Dims |-> QMul(v_t[d], QMul(a_[d][c], a_[d][c]))],
                            ZNDIM))))]

\* what np.empty may hold
Garbage == {QInt(-2), QZero}

\* buf[:, spike_dims] = spike; buf[:, lfp_dims] = lfp; the other columns stay
Fill(buf, spike, lfp) ==
    [c \in Channels |->
        IF ytype[c] = SPIKE THEN spike[c]
        ELSE IF ytype[c] = LFP THEN lfp[c]
        ELSE buf[c]]

\* U @ (a.T ** 2), one time bin
w_of(U_, a_) ==
    [d \in Dims |-> QSum([c \in Channels |-> QMul(U_[c], QMul(a_[d][c], a_[d][c]))], NCH)]

\* 1 / noise
Recip(noise_) == [c \in Channels |-> QDiv(QInt(1), noise_[c])]

\* Ir + GtWG, a scalar; solve(..., sym_pos=True) needs it positive
System(d, w_td) == QAdd(QInt(1), QMul(QMul(G(d), G(d)), w_td))
Solvable(d, w_td) == ~QLe(System(d, w_td), QZero)

ZeroTD == [tr \in Trials |-> [d \in Dims |-> QZero]]
ZeroDC == [d \in Dims |-> [c \in Channels |-> QZero]]
ZeroC == [c \in Channels |-> QZero]

\* var(y_, axis=0, ddof=0), two trials
var_of(x) ==
    [c \in Channels |->
        LET h == QDiv(QSub(x[1][c], x[2][c]), QInt(2)) IN QMul(h, h)]

YQ == [tr \in Trials |-> [c \in Channels |-> QInt(y[tr][c])]]

CallerKeys == {"y", "h", "sigma", "omega", "options", "y_type", "dyn_ndim",
               "history_filter"}
VemKeys == {"it", "e_elapsed", "m_elapsed", "h_elapsed", "em_elapsed"}

\* the end of initialize: the zero arrays, update_w, update_v
InitializeArrays ==
    /\ pc = "ready"
    /\ pc' = "vem"
    /\ noise' = var_of(YQ)
    /\ dmu' = ZeroTD /\ da' = ZeroDC /\ db' = ZeroC
    /\ LET U_(tr) == Fill([c \in Channels |-> env.garbage],
                          r_of(eta_of(mu[tr], a, b), ZeroTD[tr], a),
                          Recip(noise'))
       IN  w' = [tr \in Trials |-> w_of(U_(tr), a)]
    /\ v' = [tr \in Trials |-> [d \in Dims |->
                IF env.method = "VB" /\ Solvable(d, w'[tr][d])
                THEN QDiv(QMul(G(d), G(d)), System(d, w'[tr][d]))
                ELSE QZero]]
    /\ dictKeys' = CallerKeys \cup written
    /\ UNCHANGED <<it, loopIt, niter, startIt, hperiod, learn_post, learn_param,
                   learn_hyper, ncallbacks, cbIdx, gcEnabled, converged, outcome,
                   logged, ytype, hypVars, numVars, chanVars, trial, zdim, etaLoc,
                   rate, residual, U, aLoc, muLoc, wrote, env>>

\* the options and bookkeeping of the driver, which no step below changes
drvRest == <<loopIt, niter, startIt, hperiod, learn_post, learn_param, learn_hyper,
             ncallbacks, cbIdx, gcEnabled, converged>>
optRest == <<consMu, consA, eps, last, passes, y, fields, named, written, env>>

\* vem: the setdefault calls, `for it in range(model['it'], niter)`
VemEnterEM ==
    /\ pc = "vem"
    /\ it < niter
    /\ it' = it + 1
    /\ dictKeys' = dictKeys \cup VemKeys
    /\ pc' = "e_begin"
    /\ UNCHANGED <<drvRest, outcome, logged, ytype, hypVars, mu, a, b, optRest,
                   inner, aliased, w, v, dmu, da, db, noise, trial, zdim, etaLoc,
                   rate, residual, U, aLoc, muLoc, wrote>>

\* a write while `trial` is processed: the array, the slice of it along the
\* trial axis (0 where the array has no such axis), the trial
Write(array, slice) == <<array, slice, trial>>

\* estep, up to the loops: residual = empty(...), U = empty(...)
EBegin ==
    /\ pc = "e_begin"
    /\ residual' = [c \in Channels |-> env.garbage]
    /\ U' = [c \in Channels |-> env.garbage]
    /\ wrote' = {}
    /\ inner' = 0
    /\ trial' = 1
    /\ pc' = "e_trial"
    /\ UNCHANGED <<drvRest, it, outcome, logged, ytype, hypVars, mu, a, b, optRest,
                   aliased, w, v, dmu, da, db, noise, zdim, etaLoc, rate, aLoc,
                   muLoc, dictKeys>>

\* `for trial in range(ntrial)`: xb, eta and r of the trial
ETrial ==
    /\ pc = "e_trial"
    /\ etaLoc' = eta_of(mu[trial], a, b)
    /\ rate' = r_of(etaLoc', v[trial], a)
    /\ zdim' = 1
    /\ pc' = "e_dim"
    /\ UNCHANGED <<drvRest, it, outcome, logged, ytype, hypVars, mu, a, b, optRest,
                   inner, aliased, w, v, dmu, da, db, noise, trial, residual, U,
                   aLoc, muLoc, wrote, dictKeys>>

\* the working residuals of a trial, from r and eta
residual_of(buf, tr, r_, eta) ==
    Fill(buf,
         [c \in Channels |-> QSub(YQ[tr][c], r_[c])],
         [c \in Channels |-> QDiv(QSub(YQ[tr][c], eta[c]), noise[c])])

\* mutant: the increment is computed although the solve raised
delta_mu_no_fallback(failed, raw) == clip(raw, dmu_bound)

\* delta_mu: what the Woodbury solve gives, clipped; 0 when solve raised
delta_mu_of(failed, raw) ==
    IF failed THEN QZero ELSE clip(raw, dmu_bound)

\* solve(Ir + GtWG, ...) raises for this trial and dimension: the system is not
\* positive definite, or the run has it fail here
SolveFails == <<trial, zdim>> \in env.fails \/ ~Solvable(zdim, w[trial][zdim])

\* `for z_dim in range(z_ndim)`: one latent dimension of the trial
EDim ==
    /\ pc = "e_dim"
    /\ residual' = residual_of(residual, trial, rate, etaLoc)
    /\ LET delta_mu == delta_mu_of(SolveFails, env.raw[trial][zdim])
       IN  /\ logged' = SolveFails
           /\ dmu' = [dmu EXCEPT ![trial][zdim] = delta_mu]
           /\ mu' = [mu EXCEPT ![trial][zdim] = QAdd(@, delta_mu)]
    /\ wrote' = wrote \cup {Write("residual", 0), Write("dmu", trial), Write("mu", trial)}
    /\ IF zdim < ZNDIM
       THEN zdim' = zdim + 1 /\ pc' = "e_dim"
       ELSE zdim' = zdim /\ pc' = "e_w"
    /\ UNCHANGED <<drvRest, it, outcome, ytype, hypVars, a, b, optRest, inner,
                   aliased, w, v, da, db, noise, trial, etaLoc, rate, U, aLoc,
                   muLoc, dictKeys>>

\* the end of the trial: eta and r again, w of the trial, v of the trial (VB)
EWeights ==
    /\ pc = "e_w"
    /\ etaLoc' = eta_of(mu[trial], a, b)
    /\ rate' = r_of(etaLoc', v[trial], a)
    /\ U' = Fill(U, rate', Recip(noise))
    /\ w' = [w EXCEPT ![trial] = w_of(U', a)]
    /\ LET failed(d) == ~Solvable(d, w'[trial][d])
       IN  IF env.method = "VB"
           THEN /\ v' = [v EXCEPT ![trial] = [d \in Dims |->
                            IF failed(d) THEN v[trial][d]
                            ELSE QDiv(QMul(G(d), G(d)), System(d, w'[trial][d]))]]
                /\ logged' = \E d \in Dims : failed(d)
           ELSE UNCHANGED <<v, logged>>
    /\ wrote' = wrote \cup ({Write("U", 0), Write("w", trial)}
                            \cup IF env.method = "VB" THEN {Write("v", trial)} ELSE {})
    /\ IF trial < NTRIAL
       THEN trial' = trial + 1 /\ pc' = "e_trial"
       ELSE trial' = trial /\ pc' = "e_center"
    /\ UNCHANGED <<drvRest, it, outcome, ytype, hypVars, mu, a, b, optRest, inner,
                   aliased, dmu, da, db, noise, zdim, residual, aLoc, muLoc,
                   dictKeys>>

\* after the trials: constrain_mu, `if norm(dmu) < tol * norm(mu): break`.
\* At the scale of these values the test passes only with dmu = 0.
ECenter ==
    /\ pc = "e_center"
    /\ LET m == constrain_mu(consMu, Model)
       IN  mu' = m.mu /\ a' = m.a /\ b' = m.b
    /\ IF inner + 1 = e_niter \/ (dmu = ZeroTD /\ mu' # ZeroTD)
       THEN pc' = "m_begin" /\ inner' = 0 /\ trial' = trial
       ELSE pc' = "e_trial" /\ inner' = inner + 1 /\ trial' = 1
    /\ UNCHANGED <<drvRest, it, outcome, logged, ytype, hypVars, optRest, aliased,
                   w, v, dmu, da, db, noise, zdim, etaLoc, rate, residual, U, aLoc,
                   muLoc, wrote, dictKeys>>

\* mstep, up to the loop: a = model['a'], mu_ = model['mu'].reshape(...) (a view)
MBegin ==
    /\ pc = "m_begin"
    /\ aLoc' = a
    /\ muLoc' = mu
    /\ aliased' = TRUE
    /\ inner' = 0
    /\ pc' = "m_chan"
    /\ UNCHANGED <<drvRest, it, outcome, logged, ytype, hypVars, mu, a, b, optRest,
                   w, v, dmu, da, db, noise, trial, zdim, etaLoc, rate, residual, U,
                   wrote, dictKeys>>

\* da[:, y_dim] = delta_a, for the SPIKE channels up to `upto`
Stored(old, delta, upto) ==
    [d \in Dims |-> [c \in Channels |->
        IF c <= upto /\ ytype[c] = SPIKE THEN delta ELSE old[d][c]]]

\* the Newton or gradient increment of this pass before it is clipped
RawOfPass == env.rawM[(inner % Len(env.rawM)) + 1]

\* one pass of `for i in range(options['m_niter'])` up to constrain_a: eta, the
\* noise, the loop over the channels, on mstep's local arrays
MChannels ==
    /\ pc = "m_chan"
    /\ noise' = var_of([tr \in Trials |-> [c \in Channels |->
                          QSub(YQ[tr][c], eta_of(muLoc[tr], aLoc, b)[c])]])
    /\ LET lfpFails == HasType(LFP) /\ env.lfpFails = it
           delta_a == clip(RawOfPass, da_bound)
           delta_b == clip(RawOfPass, db_bound)
           upto == IF lfpFails THEN FirstLFP - 1 ELSE NCH
           u_ == ChannelUpdates(aLoc, b, delta_a, delta_b, upto)
       IN  /\ aLoc' = u_.a
           /\ a' = IF aliased THEN u_.a ELSE a
           /\ b' = u_.b
           /\ da' = Stored(da, delta_a, upto)
           /\ db' = Stored(<<db>>, delta_b, upto)[1]
           /\ IF lfpFails
              THEN pc' = "raised" /\ outcome' = "LinAlgError"
              ELSE pc' = "m_cons" /\ outcome' = outcome
    /\ UNCHANGED <<drvRest, it, logged, ytype, hypVars, mu, optRest, inner, aliased,
                   w, v, dmu, trial, zdim, etaLoc, rate, residual, U, muLoc, wrote,
                   dictKeys>>

\* the end of the pass: constrain_a(model) and the break test.  A vector norm
\* rescales model['a'] and model['mu'] in place; 'svd' binds both keys to new
\* arrays and leaves the old ones to mstep's locals.
MConstrain ==
    /\ pc = "m_cons"
    /\ \E vh \in SvdOutcomes(consA, a) :
          LET m == constrain_a(consA, eps, vh, Model)
          IN  mu' = m.mu /\ a' = m.a
    /\ aliased' = (aliased /\ consA # "svd")
    /\ aLoc' = IF aliased' THEN a' ELSE aLoc
    /\ muLoc' = IF aliased' THEN mu' ELSE muLoc
    /\ IF inner + 1 = m_niter
          \/ (da = ZeroDC /\ db = ZeroC /\ aLoc' # ZeroDC /\ b # ZeroC)
       THEN pc' = "check" /\ inner' = 0
       ELSE pc' = "m_chan" /\ inner' = inner + 1
    /\ UNCHANGED <<drvRest, it, outcome, logged, ytype, hypVars, b, optRest, w, v,
                   dmu, da, db, noise, trial, zdim, etaLoc, rate, residual, U, wrote,
                   dictKeys>>

\* hstep returns at once (learn_hyper is off), there are no callbacks; the
\* convergence test, then the next iteration or the end of the loop
VemCheck ==
    /\ pc = "check"
    /\ converged' = (/\ dmu = ZeroTD /\ mu # ZeroTD
                     /\ da = ZeroDC /\ a # ZeroDC
                     /\ db = ZeroC /\ b # ZeroC)
    /\ IF converged' \/ it = niter
       THEN pc' = "returned" /\ it' = it
       ELSE pc' = "e_begin" /\ it' = it + 1
    /\ UNCHANGED <<loopIt, niter, startIt, hperiod, learn_post, learn_param,
                   learn_hyper, ncallbacks, cbIdx, gcEnabled, outcome, logged, ytype,
                   hypVars, numVars, chanVars, emVars>>

\* postprocess(model): L for every (trial, dimension), then the two pops
postprocess ==
    /\ pc = "returned"
    /\ IF "stat" \in dictKeys
       THEN /\ dictKeys' = (dictKeys \cup {"L"}) \ {"h", "stat"}
            /\ pc' = "done"
            /\ outcome' = outcome
       ELSE \* model.pop('stat')
            /\ dictKeys' = (dictKeys \cup {"L"}) \ {"h"}
            /\ pc' = "raised"
            /\ outcome' = "KeyError"
    /\ UNCHANGED <<drvRest, it, logged, ytype, hypVars, numVars, chanVars, w, v, dmu,
                   da, db, noise, trial, zdim, etaLoc, rate, residual, U, aLoc,
                   muLoc, wrote, env>>

\* the inputs of a run
TypesEM == {<<SPIKE, SPIKE>>, <<SPIKE, UNUSED>>, <<SPIKE, LFP>>}
YEM == {<<<<1, 0>>, <<0, 1>>>>, <<<<1, 0>>, <<0, 0>>>>}
MuEM == {QMat(<<<< <<1, 1>>, <<0, 1>> >>, << <<0, 1>>, <<1, 1>> >>>>)}
AEM == {QMat(<<<< <<1, 1>>, <<1, 1>> >>, << <<1, 1>>, <<-1, 1>> >>>>)}
BEM == {QVec(<< <<0, 1>>, <<0, 1>> >>)}
FailsEM == {{}, {<<1, 2>>}}
RawEM == {QMat(<<<< <<2, 1>>, <<1, 2>> >>, << <<-2, 1>>, <<0, 1>> >>>>), ZeroTD}
RawMEM == {<<QInt(-2), Q(1, 2), QZero>>, <<QZero, QZero, QZero>>}
\* options['method'], VB or MAP
MethodsEM == {"VB", "MAP"}
EnvEM == [method : MethodsEM, garbage : Garbage, fails : FailsEM, raw : RawEM,
          rawM : RawMEM, lfpFails : 0..1]
\* v feeds r, r feeds w and w feeds v: under VB the exact fractions outgrow
\* 32-bit integers after a few passes, so the VB runs are those whose E-step
\* converges at once
RunsEM ==
    {e \in EnvEM : /\ e.lfpFails = 0 \/ HasType(LFP)
                   /\ e.method = "MAP" \/ e.raw = ZeroTD}

InitEM ==
    /\ pc = "init"
    /\ it = 0 /\ loopIt = 0 /\ startIt = 0 /\ niter = MaxIter /\ hperiod = 1
    /\ learn_post = TRUE /\ learn_param = TRUE /\ learn_hyper = FALSE
    /\ ncallbacks = 0 /\ cbIdx = 0 /\ gcEnabled = TRUE /\ converged = FALSE
    /\ outcome = "none" /\ logged = FALSE
    /\ HypIdle
    /\ ytype \in TypesEM
    /\ mu \in MuEM
    /\ a \in AEM
    /\ b \in BEM
    /\ consMu = TRUE
    /\ consA \in ChanMethods
    /\ eps \in EpsValues
    /\ last = "none" /\ passes = 0
    /\ y \in YEM
    /\ fields = AllPresent
    /\ named = {} /\ written = {}
    /\ inner = 0 /\ aliased = TRUE
    /\ w = << >> /\ v = << >> /\ dmu = << >> /\ da = << >> /\ db = << >>
    /\ noise = << >> /\ trial = 0 /\ zdim = 0 /\ etaLoc = << >> /\ rate = << >>
    /\ residual = << >> /\ U = << >> /\ aLoc = << >> /\ muLoc = << >>
    /\ wrote = {} /\ dictKeys = {}
    /\ env \in RunsEM

NextEM ==
    \/ initialize \/ InitializeArrays \/ VemEnterEM
    \/ EBegin \/ ETrial \/ EDim \/ EWeights \/ ECenter
    \/ MBegin \/ MChannels \/ MConstrain
    \/ VemCheck \/ postprocess

SpecEM == InitEM /\ [][NextEM]_vars

(***************************************************************************)
(* The claims about estep, mstep and postprocess (SpecEM).                 *)
(***************************************************************************)
\* w has been computed: update_w in initialize, then every trial of estep
WComputed == w # << >>

\* C11: the working weight w is elementwise nonnegative in every state after
\* initialize, after update_w and after every trial update of estep, for every
\* assignment of channel types, channels that are neither SPIKE nor LFP
\* included.
C11_WNonnegative ==
    WComputed => \A tr \in Trials, d \in Dims : QLe(QZero, w[tr][d])

\* The same where every channel is SPIKE or LFP (U is then written in full).
WNonnegativeAllTyped ==
    (\A c \in Channels : ytype[c] \in {SPIKE, LFP}) => C11_WNonnegative

\* The same where np.empty happens to hand out zeroed memory.
WNonnegativeZeroedMemory ==
    (env # << >> /\ env.garbage = QZero) => C11_WNonnegative

\* the working residuals of the trial under way, from the posterior means as
\* they are now
FreshResidual ==
    LET eta == eta_of(mu[trial], a, b)
    IN  residual_of(residual, trial, r_of(eta, v[trial], a), eta)

\* C12: within one pass over a trial the latent dimensions are updated
\* Gauss-Seidel style: the working residual that gives the increment of
\* dimension k is computed from the current posterior means, the increments of
\* the dimensions j < k of the same pass included.
C12_GaussSeidel ==
    [][pc = "e_dim" => residual' = FreshResidual]_vars

\* The same for the first dimension of a trial, before any increment.
FirstDimResidualFresh ==
    [][pc = "e_dim" /\ zdim = 1 => residual' = FreshResidual]_vars

\* the arrays of the model that have one slice per trial
PerTrial == {"mu", "dmu", "w", "v"}

\* C13: the processing of trial t writes only trial t's slices of mu, dmu, w
\* and v and shares no mutable storage with the processing of another trial
\* (so that the trials of one inner iteration may run in any order or
\* interleaved).
C13_NoSharedStorage ==
    \A x \in wrote : x[1] \in PerTrial /\ x[2] = x[3]

\* What holds: of mu, dmu, w and v a trial writes its own slice only.
OwnSlicesOnly ==
    \A x \in wrote : x[1] \in PerTrial => x[2] = x[3]

\* The storage two trials both write: the buffers allocated once per call.
WrittenByTwo ==
    {x[1] : x \in {z \in wrote : \E q \in wrote : q[1] = z[1] /\ q[2] = z[2] /\ q[3] # z[3]}}
BuffersShared ==
    (pc = "e_center") => WrittenByTwo = {"residual", "U"}

\* C14: when the Woodbury solve for a (trial, dimension) fails, the failure is
\* logged, the increment of that (trial, dimension) is zero (dmu is 0 there and
\* mu is not changed), nothing is raised, and the loop goes on with the next
\* dimension or with the end of the trial.
C14_FailedSolveSkipped ==
    [][pc = "e_dim" /\ SolveFails =>
          /\ logged'
          /\ dmu'[trial][zdim] = QZero
          /\ mu'[trial] = mu[trial]
          /\ outcome' = outcome
          /\ IF zdim < ZNDIM
             THEN pc' = "e_dim" /\ zdim' = zdim + 1 /\ trial' = trial
             ELSE pc' = "e_w"]_vars

\* A pass in which the solve of trial 1, dimension 2 failed where it would
\* have given an increment, and the trial after it was updated as usual.
C14_Witness ==
    /\ pc = "e_center"
    /\ <<1, 2>> \in env.fails
    /\ env.raw[1][2] # QZero
    /\ dmu[1][2] = QZero
    /\ dmu[1][1] # QZero
    /\ dmu[2][1] # QZero
    /\ outcome = "none"

Within(x, bound) == QLe(QNeg(bound), x) /\ QLe(x, bound)

\* every stored increment lies within its bound
IncrementsBounded ==
    dmu # << >> =>
        /\ \A tr \in Trials, d \in Dims : Within(dmu[tr][d], dmu_bound)
        /\ \A d \in Dims, c \in Channels : Within(da[d][c], da_bound)
        /\ \A c \in Channels : Within(db[c], db_bound)

\* what an update adds is the increment it stores: to mu in estep, to the a and
\* b of every SPIKE channel in a pass of mstep that runs through
StoredIsApplied ==
    /\ pc = "e_dim" =>
          mu'[trial][zdim] = QAdd(mu[trial][zdim], dmu'[trial][zdim])
    /\ pc = "m_chan" /\ pc' = "m_cons" =>
          \A c \in Channels : ytype[c] = SPIKE =>
              /\ \A d \in Dims : aLoc'[d][c] = QAdd(aLoc[d][c], da'[d][c])
              /\ b'[c] = QAdd(b[c], db'[c])

\* C15: every increment is clipped to its symmetric bound before it is
\* applied: each element of dmu, da and db lies within [-bound, bound] in every
\* state of estep and mstep, and what is added to mu (E-step) or to the a and b
\* of a SPIKE channel (M-step) in one update is the stored, clipped increment.
C15_ClippedThenApplied ==
    []IncrementsBounded /\ [][StoredIsApplied]_vars

\* Both steps have clipped an increment beyond the bound (2 to 1 in estep, -2
\* to -1 in mstep) and kept one within it (1/2).
C15_Witness ==
    /\ pc = "m_cons" /\ inner = 0
    /\ env.raw[1][1] = QInt(2) /\ dmu[1][1] = dmu_bound
    /\ env.raw[1][2] = Q(1, 2) /\ dmu[1][2] = Q(1, 2)
    /\ env.rawM[1] = QInt(-2)
    /\ da[1][1] = QNeg(da_bound) /\ db[1] = QNeg(db_bound)
    /\ aLoc[1][1] = QZero

\* C16: the loading and posterior-mean arrays that the inner iterations of
\* mstep read and update are the ones stored in the model, for every
\* constrain_a setting, 'svd' included, so that the updates of every inner
\* iteration are in model['a'] when mstep returns.
C16_LocalsAreModel ==
    pc \in {"m_chan", "m_cons", "check"} => aLoc = a /\ muLoc = mu

\* The same for the vector norms, which rescale in place.
LocalsAreModelWithoutSvd == consA # "svd" => C16_LocalsAreModel

\* With 'svd' the channel loop of every pass after the first leaves model['a']
\* as it was, while model['b'] gets the updates.
LaterPassesLost ==
    [][pc = "m_chan" /\ consA = "svd" /\ inner > 0 /\ pc' = "m_cons" => a' = a]_vars

\* the fitted fields of the model
Fitted == <<a, b, mu, v, w, chol>>

\* C17: postprocess applied to a model that initialize and vem produced, with no
\* field added by the caller, completes without raising: it stores model['L'],
\* removes the field 'h' and leaves the fitted fields a, b, mu, v, w and chol
\* unchanged.
C17_PostprocessCompletes ==
    [][pc = "returned" =>
          /\ pc' = "done"
          /\ outcome' = outcome
          /\ "L" \in dictKeys' /\ "h" \notin dictKeys'
          /\ Fitted' = Fitted]_vars

\* What postprocess does: L is stored, 'h' is removed, the fitted fields are
\* not touched, and model.pop('stat') raises KeyError.
PostprocessRaises ==
    [][pc = "returned" =>
          /\ pc' = "raised" /\ outcome' = "KeyError"
          /\ "L" \in dictKeys' /\ "h" \notin dictKeys'
          /\ Fitted' = Fitted]_vars

\* No step of initialize or vem stores the field 'stat'.
StatNeverStored == "stat" \notin dictKeys
====
